---- MODULE Spec2Model ----
(***************************************************************************)
(* Model of src/animations.js: the scroll-triggered visibility tracker of  *)
(* the wedding website.  The tracker caches a snap container and its       *)
(* sections, and toggles the 'is-visible' class on the sections from an    *)
(* IntersectionObserver callback, from debounced scroll / resize / touch   *)
(* handlers and from a handful of timers.                                  *)
(*                                                                         *)
(* Time is counted in milliseconds and advances in steps of TickMs; events *)
(* happen between the steps.  A timer becomes due at the end of the step   *)
(* in which its delay runs out, and runs before time advances further.     *)
(***************************************************************************)
EXTENDS Integers, Sequences, FiniteSets, Bags

\* ------------------------------------------------------------------ bounds
MaxSections == 2      \* section elements the page can hold
MaxLeft == 1          \* largest rect.left of a bounding rectangle
MaxWidth == 1         \* largest rect.width of a bounding rectangle

\* ------------------------------------------------------- program constants
ScrollDebounce == 100 \* CONFIG.scrollDebounce
FirstDelay == 50      \* delay of the first-section timer
TouchDelay == 200     \* delay of the touch-end timer
LoadInitDelay == 100  \* delay of the init retry after load
LoadCheckDelay == 200 \* delay of the recompute after load
ShowRatio == 3        \* 0.3, in tenths
HideRatio == 1        \* 0.1, in tenths
FullRatio == 10       \* 1.0, in tenths

\* the step of time: the debounce delay, which divides every delay but FirstDelay
TickMs == ScrollDebounce

Elems == 1..MaxSections
NoSection == 0

Rect == [left : 0..MaxLeft, width : 0..MaxWidth]
\* the small rectangles used where the exact geometry is not the subject
PageRect == [left |-> 0, width |-> MaxWidth]
AwayRect == [left |-> MaxLeft, width |-> MaxWidth]

\* ratios on both sides of the two thresholds
RatioSamples == {0, HideRatio, ShowRatio}
Ratios == 0..FullRatio

VARIABLES
    isInitialized,   \* let isInitialized
    container,       \* let container: TRUE when a container element is cached
    sections,        \* let sections: cached section elements, document order
    domContainer,    \* the document holds a .snap-container
    domSections,     \* the document's section.snap-page elements, in order
    hasIO,           \* 'IntersectionObserver' in window
    boot,            \* "script" before the script body ran, "run" after
    domReadyListener,\* DOMContentLoaded listener attached and not yet run
    loadPending,     \* the window load event is still to come
    visible,         \* elements whose classList contains 'is-visible'
    containerRect,   \* container.getBoundingClientRect()
    sectionRect,     \* element -> getBoundingClientRect()
    scrollListeners, \* scroll listeners on the container
    touchListeners,  \* touchend listeners on the container
    resizeListeners, \* resize listeners on window
    observed,        \* elements passed to observer.observe, in order
    timers,          \* pending setTimeout callbacks: a bag of [kind, due]
    calls,           \* functions entered during the last step
    mutations,       \* element -> its classList operations in the last step
    restarted,       \* elements retriggered in the last step that had the class
    burst,           \* the debounced events whose timer is pending
    sinceFeed,       \* ms since the last of them
    served,          \* the burst whose timer ran in the last step
    delivered        \* the entries the observer passed in the last step

vars == <<isInitialized, container, sections, domContainer, domSections, hasIO,
          boot, domReadyListener, loadPending, visible, containerRect,
          sectionRect, scrollListeners, touchListeners, resizeListeners,
          observed, timers, calls, mutations, restarted, served,
          burst, sinceFeed, delivered>>

domVars == <<domContainer, domSections, hasIO>>
geoVars == <<containerRect, sectionRect>>
listenerVars == <<scrollListeners, touchListeners, resizeListeners, observed>>
trackerVars == <<isInitialized, container, sections>>
feedVars == <<burst, sinceFeed>>
bootVars == <<boot, domReadyListener, loadPending>>

\* ---------------------------------------------------------------- helpers
Abs(x) == IF x < 0 THEN 0 - x ELSE x


Prefix(n) == [i \in 1..n |-> i]

Range(s) == {s[i] : i \in 1..Len(s)}

Timer(k, delay) == [kind |-> k, due |-> delay]

Pending(ts, k) == {t \in BagToSet(ts) : t.kind = k}

RECURSIVE SumCopies(_, _)
SumCopies(ts, S) ==
    IF S = {} THEN 0
    ELSE LET t == CHOOSE x \in S : TRUE
         IN  CopiesIn(t, ts) + SumCopies(ts, S \ {t})

CountKind(ts, k) == SumCopies(ts, Pending(ts, k))

\* setTimeout(cb, delay): one more pending timer
SetTimeout(ts, k, delay) == ts (+) SetToBag({Timer(k, delay)})

\* clearTimeout(handle): the handle names the timer the closure created last,
\* which is the pending one of its kind with the most time left
ClearTimeout(ts, k) ==
    LET P == Pending(ts, k)
    IN  IF P = {} THEN ts
        ELSE ts (-) SetToBag({CHOOSE t \in P : \A u \in P : u.due <= t.due})

NoOps == [e \in Elems |-> <<>>]

\* no debounced event is waiting for its timer
NoBurst == [last |-> "none", kinds |-> {}, many |-> FALSE]

\* no observer notification in the step
NoEntries == <<>>

\* classList operations on one element, as a mutation observer sees them
OpsRemove == <<"remove">>

\* variant: the class is added without removing it first
OpsAddOnly == <<"add">>

\* remove, void el.offsetWidth, add
OpsRetrigger == <<"remove", "reflow", "add">>

OpsAdd == <<"add">>

\* ------------------------------------------------- checkVisibleSection
\* rect.left + rect.width / 2, doubled to stay in the integers
Center2(rect) == 2 * rect.left + rect.width

\* variant: the absolute value is forgotten
SignedDistance2(rect, cRect) == Center2(rect) - Center2(cRect)

\* Math.abs(sectionCenter - viewportCenter), doubled
Distance2(rect, cRect) == Abs(Center2(rect) - Center2(cRect))

\* let minDistance = Infinity: above every distance of the model
Infinity == 2 * MaxLeft + MaxWidth + 1

\* variant: <= lets a later section at the same distance win
CloserOrEqual(distance, minDistance) == distance <= minDistance

\* if (distance < minDistance)
Closer(distance, minDistance) == distance < minDistance

\* sections.forEach(section => { ... }) of lines 127-136, from index i on
RECURSIVE ScanSections(_, _, _, _, _)
ScanSections(secs, i, acc, cRect, sRect) ==
    IF i > Len(secs) THEN acc
    ELSE LET distance == Distance2(sRect[secs[i]], cRect)
             next == IF Closer(distance, acc.minDistance)
                     THEN [closestSection |-> secs[i], minDistance |-> distance]
                     ELSE acc
         IN  ScanSections(secs, i + 1, next, cRect, sRect)

ClosestSection(secs, cRect, sRect) ==
    ScanSections(secs, 1, [closestSection |-> NoSection, minDistance |-> Infinity],
                 cRect, sRect).closestSection

\* variant: the other sections are left as they are
ResetNone(secs, closest, vis) == vis

\* lines 138-143: every section but the closest loses the class
ResetOthers(secs, closest, vis) == vis \ (Range(secs) \ {closest})

\* variant: the class is removed and never added back
RetriggerNoAdd(closest, vis) == vis \ {closest}

\* lines 145-153: the closest section is removed, reflowed and re-added
Retrigger(closest, vis) ==
    IF closest = NoSection THEN vis ELSE (vis \ {closest}) \cup {closest}

\* variant: the recompute goes on without a container
GuardDropped(cont) == FALSE

\* variant: the test is inverted
GuardInverted(cont) == cont

\* if (!container) return;
NoContainer(cont) == ~cont

\* checkVisibleSection(): the new class state and the operations performed
CheckVisibleSection(cont, secs, vis, cRect, sRect) ==
    IF NoContainer(cont) THEN [visible |-> vis, mutations |-> NoOps, restarted |-> {}]
    ELSE LET closest == ClosestSection(secs, cRect, sRect)
         IN  [visible |-> Retrigger(closest, ResetOthers(secs, closest, vis)),
              mutations |->
                 [e \in Elems |->
                    IF e = closest THEN OpsRetrigger
                    ELSE IF e \in Range(secs) THEN OpsRemove
                    ELSE <<>>],
              restarted |-> {closest} \cap vis]

\* ------------------------------------------ IntersectionObserver callback
EntryData(ratios) ==
    {[isIntersecting |-> FALSE, intersectionRatio |-> 0]}
    \cup {[isIntersecting |-> TRUE, intersectionRatio |-> r] : r \in ratios}

\* a notification: one entry for each target whose intersection changed
Batches(targets, ratios) ==
    UNION {[T -> EntryData(ratios)] : T \in (SUBSET targets) \ {{}}}

\* the notifications about a single target
SingleBatches(targets, ratios) ==
    UNION {[{e} -> EntryData(ratios)] : e \in targets}

\* the body of entries.forEach for one entry, lines 66-76
EntryShows(entry) == entry.isIntersecting /\ entry.intersectionRatio >= ShowRatio

\* variant: every ratio below the show threshold hides
EntryHidesBelowShow(entry) == entry.intersectionRatio < ShowRatio

\* else if (entry.intersectionRatio < 0.1)
EntryHides(entry) == entry.intersectionRatio < HideRatio

ObserverCallback(entries, vis) ==
    LET shown == {e \in DOMAIN entries : EntryShows(entries[e])}
        hidden == {e \in DOMAIN entries :
                     ~EntryShows(entries[e]) /\ EntryHides(entries[e])}
    IN  [visible |-> (vis \ hidden) \cup shown,
         mutations |->
            [e \in Elems |->
               IF e \in shown THEN OpsRetrigger
               ELSE IF e \in hidden THEN OpsRemove
               ELSE <<>>],
         restarted |-> shown \cap vis]

\* ------------------------------------------------------- debounce handlers
\* variant: the pending timer is not cleared
ScrollHandlerNoClear(ts) == SetTimeout(ts, "scroll", ScrollDebounce)

\* the scroll listener of observer mode, lines 84-89
ObserverScrollHandler(ts) ==
    SetTimeout(ClearTimeout(ts, "scroll"), "scroll", ScrollDebounce)

\* variant: handleScroll does not clear the pending timer
HandleScrollNoClear(ts) == SetTimeout(ts, "scroll", ScrollDebounce)

\* handleScroll of fallback mode, lines 103-106
HandleScroll(ts) ==
    SetTimeout(ClearTimeout(ts, "scroll"), "scroll", ScrollDebounce)

\* variant: the pending touch-end timer is cleared first
TouchEndDebounced(ts) ==
    SetTimeout(ClearTimeout(ts, "touch"), "touch", TouchDelay)

\* the touchend listener, lines 92-94
TouchEndHandler(ts) == SetTimeout(ts, "touch", TouchDelay)

\* an event runs every listener attached for it
RECURSIVE DispatchScroll(_, _)
DispatchScroll(ts, n) ==
    IF n = 0 THEN ts
    ELSE DispatchScroll(IF hasIO THEN ObserverScrollHandler(ts)
                        ELSE HandleScroll(ts), n - 1)

RECURSIVE DispatchResize(_, _)
DispatchResize(ts, n) ==
    IF n = 0 THEN ts ELSE DispatchResize(HandleScroll(ts), n - 1)

RECURSIVE DispatchTouchEnd(_, _)
DispatchTouchEnd(ts, n) ==
    IF n = 0 THEN ts ELSE DispatchTouchEnd(TouchEndHandler(ts), n - 1)

\* -------------------------------------------------------------------- init
\* variant: && in place of ||
NotFoundBoth(cont, secs) == ~cont /\ Len(secs) = 0

\* variant: the sections are not tested
NotFoundContainerOnly(cont, secs) == ~cont

\* if (!container || sections.length === 0)
NotFound(cont, secs) == ~cont \/ Len(secs) = 0

\* variant: the last section is marked
LastSectionCallback(secs, vis) ==
    IF Len(secs) > 0 THEN vis \cup {secs[Len(secs)]} ELSE vis

\* the callback of the first-section timer, lines 45-49
FirstSectionCallback(secs, vis) ==
    IF Len(secs) > 0 THEN vis \cup {secs[1]} ELSE vis

FirstSectionOps(secs, vis) ==
    [e \in Elems |->
       IF Len(secs) > 0 /\ e = secs[1]
       THEN OpsAdd ELSE <<>>]

\* variant: no guard
InitGuardOff == FALSE

\* variant: init runs again when the page has changed
InitGuardStale == isInitialized /\ domSections = sections

\* if (isInitialized) return;
InitGuard == isInitialized

\* variant: the flag is never set
InitializedNever == FALSE

\* isInitialized = true; at the end of a setup
InitializedAfterSetup == TRUE

\* variant: the fallback is chosen whatever the platform offers
UseObserverNever == FALSE

\* 'IntersectionObserver' in window
UseObserver == hasIO

\* init(), run with the pending timers ts
InitCall(ts) ==
    IF InitGuard
    THEN /\ calls' = <<"init">>
         /\ mutations' = NoOps
         /\ restarted' = {}
         /\ served' = NoBurst
         /\ delivered' = NoEntries
         /\ timers' = ts
         /\ UNCHANGED <<trackerVars, visible, listenerVars>>
    ELSE /\ container' = domContainer
         /\ sections' = domSections
         /\ IF NotFound(domContainer, domSections)
            THEN /\ calls' = <<"init", "warn">>
                 /\ mutations' = NoOps
                 /\ restarted' = {}
                 /\ served' = NoBurst
                 /\ delivered' = NoEntries
                 /\ timers' = ts
                 /\ UNCHANGED <<isInitialized, visible, listenerVars>>
            ELSE /\ IF UseObserver
                    THEN \* setupIntersectionObserver()
                         /\ observed' = observed \o domSections
                         /\ scrollListeners' = scrollListeners + 1
                         /\ touchListeners' = touchListeners + 1
                         /\ calls' = <<"init", "setupIntersectionObserver">>
                         /\ mutations' = NoOps
                         /\ restarted' = {}
                         /\ served' = NoBurst
                         /\ delivered' = NoEntries
                         /\ UNCHANGED <<resizeListeners, visible>>
                    ELSE \* setupScrollFallback()
                         LET r == CheckVisibleSection(container', sections',
                                      visible, containerRect, sectionRect)
                         IN  /\ scrollListeners' = scrollListeners + 1
                             /\ resizeListeners' = resizeListeners + 1
                             /\ visible' = r.visible
                             /\ mutations' = r.mutations
                             /\ restarted' = r.restarted
                             /\ served' = NoBurst
                             /\ delivered' = NoEntries
                             /\ calls' = <<"init", "setupScrollFallback",
                                           "checkVisibleSection">>
                             /\ UNCHANGED <<touchListeners, observed>>
                 /\ timers' = SetTimeout(ts, "first", FirstDelay)
                 /\ isInitialized' = InitializedAfterSetup

\* checkVisibleSection() as a whole step, run with the pending timers ts
CheckCall(ts) ==
    LET r == CheckVisibleSection(container, sections, visible,
                                 containerRect, sectionRect)
    IN  /\ visible' = r.visible
        /\ mutations' = r.mutations
        /\ restarted' = r.restarted
        /\ calls' = <<"checkVisibleSection">>
        /\ timers' = ts
        /\ UNCHANGED <<trackerVars, listenerVars>>

\* ------------------------------------------------------------ script body
\* lines 159-169: init now or on DOMContentLoaded, and the load listener
Bootstrap ==
    /\ boot = "script"
    /\ \E readyState \in {"loading", "interactive", "complete"} :
         /\ loadPending' = (readyState # "complete")
         /\ IF readyState = "loading"
            THEN /\ domReadyListener' = TRUE
                 /\ calls' = <<>>
                 /\ mutations' = NoOps
                 /\ restarted' = {}
                 /\ served' = NoBurst
                 /\ delivered' = NoEntries
                 /\ UNCHANGED <<trackerVars, visible, listenerVars, timers>>
            ELSE /\ domReadyListener' = FALSE
                 /\ InitCall(timers)
    /\ boot' = "run"
    /\ UNCHANGED <<domVars, geoVars, feedVars>>

DOMContentLoaded ==
    /\ boot = "run"
    /\ domReadyListener
    /\ domReadyListener' = FALSE
    /\ InitCall(timers)
    /\ UNCHANGED <<domVars, geoVars, feedVars, boot, loadPending>>

\* the load listener, lines 166-169
Load ==
    /\ boot = "run"
    /\ ~domReadyListener
    /\ loadPending
    /\ loadPending' = FALSE
    /\ timers' = SetTimeout(SetTimeout(timers, "loadInit", LoadInitDelay),
                            "loadCheck", LoadCheckDelay)
    /\ calls' = <<>>
    /\ mutations' = NoOps
    /\ restarted' = {}
    /\ served' = NoBurst
    /\ delivered' = NoEntries
    /\ UNCHANGED <<trackerVars, domVars, geoVars, feedVars, boot,
                   domReadyListener, visible, listenerVars>>

\* window.__weddingAnimations.init()
DiagInit ==
    /\ boot = "run"
    /\ InitCall(timers)
    /\ UNCHANGED <<domVars, geoVars, feedVars, bootVars>>

\* window.__weddingAnimations.checkVisibleSection()
DiagCheck ==
    /\ boot = "run"
    /\ CheckCall(timers)
    /\ served' = NoBurst
    /\ delivered' = NoEntries
    /\ UNCHANGED <<domVars, geoVars, feedVars, bootVars>>

\* window.__weddingAnimations.getState()
GetState ==
    [isInitialized |-> isInitialized,
     sectionsCount |-> Len(sections),
     visibleSections |-> Cardinality({i \in 1..Len(sections) : sections[i] \in visible})]

\* ------------------------------------------------------------------ events
\* one more event joins the burst
Fed(kind) ==
    [last |-> kind, kinds |-> burst.kinds \cup {kind}, many |-> burst.last # "none"]

\* a scroll event on the container
ScrollEvent ==
    /\ scrollListeners > 0
    /\ timers' = DispatchScroll(timers, scrollListeners)
    /\ burst' = Fed("scroll")
    /\ sinceFeed' = 0
    /\ calls' = <<>>
    /\ mutations' = NoOps
    /\ restarted' = {}
    /\ served' = NoBurst
    /\ delivered' = NoEntries
    /\ UNCHANGED <<trackerVars, domVars, geoVars, bootVars, visible,
                   listenerVars>>

\* a resize event on window
ResizeEvent ==
    /\ resizeListeners > 0
    /\ timers' = DispatchResize(timers, resizeListeners)
    /\ burst' = Fed("resize")
    /\ sinceFeed' = 0
    /\ calls' = <<>>
    /\ mutations' = NoOps
    /\ restarted' = {}
    /\ served' = NoBurst
    /\ delivered' = NoEntries
    /\ UNCHANGED <<trackerVars, domVars, geoVars, bootVars, visible,
                   listenerVars>>

\* a touchend event on the container
TouchEndEvent ==
    /\ touchListeners > 0
    /\ ~BagIn(Timer("touch", TouchDelay), timers)   \* one touch-end per instant
    /\ timers' = DispatchTouchEnd(timers, touchListeners)
    /\ calls' = <<>>
    /\ mutations' = NoOps
    /\ restarted' = {}
    /\ served' = NoBurst
    /\ delivered' = NoEntries
    /\ UNCHANGED <<trackerVars, domVars, geoVars, bootVars, feedVars, visible,
                   listenerVars>>

\* the observer delivers one of `batches`
Notify(batches) ==
    /\ observed # <<>>
    /\ \E entries \in batches :
         LET r == ObserverCallback(entries, visible)
         IN  /\ visible' = r.visible
             /\ mutations' = r.mutations
             /\ restarted' = r.restarted
             /\ served' = NoBurst
             /\ delivered' = entries
    /\ calls' = <<"observerCallback">>
    /\ UNCHANGED <<trackerVars, domVars, geoVars, bootVars, feedVars,
                   listenerVars, timers>>

\* one target crosses a threshold; a notification about several targets
\* acts as the notifications about each of them in turn
ObserverNotify == Notify(SingleBatches(Range(observed), RatioSamples))

\* ------------------------------------------------------------------ timers
Due(k) == BagIn(Timer(k, 0), timers)

\* variant: running a callback drops every pending timer
FiredDropsAll(k) == EmptyBag

\* the timer whose callback runs is no longer pending
Fired(k) == timers (-) SetToBag({Timer(k, 0)})

FireFirst ==
    /\ Due("first")
    /\ timers' = Fired("first")
    /\ visible' = FirstSectionCallback(sections, visible)
    /\ mutations' = FirstSectionOps(sections, visible)
    /\ restarted' = {}
    /\ served' = NoBurst
    /\ delivered' = NoEntries
    /\ calls' = <<"firstSectionCallback">>
    /\ UNCHANGED <<trackerVars, domVars, geoVars, bootVars, feedVars,
                   listenerVars>>

FireScroll ==
    /\ Due("scroll")
    /\ CheckCall(Fired("scroll"))
    /\ served' = burst
    /\ delivered' = NoEntries
    /\ burst' = NoBurst
    /\ sinceFeed' = 0
    /\ UNCHANGED <<domVars, geoVars, bootVars>>

FireTouch ==
    /\ Due("touch")
    /\ CheckCall(Fired("touch"))
    /\ served' = NoBurst
    /\ delivered' = NoEntries
    /\ UNCHANGED <<domVars, geoVars, bootVars, feedVars>>

FireLoadInit ==
    /\ Due("loadInit")
    /\ InitCall(Fired("loadInit"))
    /\ UNCHANGED <<domVars, geoVars, bootVars, feedVars>>

FireLoadCheck ==
    /\ Due("loadCheck")
    /\ CheckCall(Fired("loadCheck"))
    /\ served' = NoBurst
    /\ delivered' = NoEntries
    /\ UNCHANGED <<domVars, geoVars, bootVars, feedVars>>

\* what is left of a delay after TickMs
Left(due) == IF due > TickMs THEN due - TickMs ELSE 0

\* TickMs elapse; a timer that is due runs first
Elapse(ts) ==
    [t \in {Timer(u.kind, Left(u.due)) : u \in BagToSet(ts)} |->
        SumCopies(ts, {u \in BagToSet(ts) : Timer(u.kind, Left(u.due)) = t})]

Tick ==
    /\ boot = "run"
    /\ timers # EmptyBag
    /\ \A t \in BagToSet(timers) : t.due > 0
    /\ timers' = Elapse(timers)
    /\ sinceFeed' = IF burst = NoBurst THEN sinceFeed ELSE sinceFeed + TickMs
    /\ calls' = <<>>
    /\ mutations' = NoOps
    /\ restarted' = {}
    /\ served' = NoBurst
    /\ delivered' = NoEntries
    /\ UNCHANGED <<trackerVars, domVars, geoVars, bootVars, visible,
                   listenerVars, burst>>

\* ------------------------------------------------------------- environment
\* the page gains its container
ContainerInserted ==
    /\ ~domContainer
    /\ domContainer' = TRUE
    /\ calls' = <<>>
    /\ mutations' = NoOps
    /\ restarted' = {}
    /\ served' = NoBurst
    /\ delivered' = NoEntries
    /\ UNCHANGED <<trackerVars, domSections, hasIO, geoVars, bootVars, feedVars,
                   visible, listenerVars, timers>>

\* the page gains one more section
SectionAppended ==
    /\ Len(domSections) < MaxSections
    /\ domSections' = Prefix(Len(domSections) + 1)
    /\ calls' = <<>>
    /\ mutations' = NoOps
    /\ restarted' = {}
    /\ served' = NoBurst
    /\ delivered' = NoEntries
    /\ UNCHANGED <<trackerVars, domContainer, hasIO, geoVars, bootVars, feedVars,
                   visible, listenerVars, timers>>

\* the changes of the page that a later init can see (the tracker reads the
\* document in init only, and init reads nothing once the flag is set)
InsertContainer == ~isInitialized /\ ContainerInserted

AppendSection == ~isInitialized /\ SectionAppended

\* the page gains a section after the tracker was set up
LateSection == isInitialized /\ SectionAppended

\* the container snaps to a section: that one is on the page, the rest off it
SnapLayouts == {[e \in Elems |-> IF e = k THEN PageRect ELSE AwayRect] : k \in Elems}

Relayout ==
    /\ \E sr \in SnapLayouts \ {sectionRect} : sectionRect' = sr
    /\ calls' = <<>>
    /\ mutations' = NoOps
    /\ restarted' = {}
    /\ served' = NoBurst
    /\ delivered' = NoEntries
    /\ UNCHANGED <<trackerVars, domVars, containerRect, bootVars, feedVars,
                   visible, listenerVars, timers>>

\* ------------------------------------------------------------ specification
\* the tracker before the script body ran
InitTracker ==
    /\ isInitialized = FALSE
    /\ container = FALSE
    /\ sections = <<>>
    /\ hasIO \in BOOLEAN
    /\ boot = "script"
    /\ domReadyListener = FALSE
    /\ loadPending = TRUE
    /\ scrollListeners = 0
    /\ touchListeners = 0
    /\ resizeListeners = 0
    /\ observed = <<>>
    /\ timers = EmptyBag
    /\ calls = <<>>
    /\ mutations = NoOps
    /\ restarted = {}
    /\ burst = NoBurst
    /\ sinceFeed = 0
    /\ served = NoBurst
    /\ delivered = NoEntries

\* a page whose markup carries no 'is-visible' class
InitCommon ==
    /\ InitTracker
    /\ visible = {}

Init ==
    /\ InitCommon
    /\ domContainer \in BOOLEAN
    /\ domSections \in {Prefix(n) : n \in 0..MaxSections}
    /\ containerRect = PageRect
    /\ sectionRect \in SnapLayouts

Next ==
    \/ Bootstrap
    \/ DOMContentLoaded
    \/ Load
    \/ DiagInit
    \/ DiagCheck
    \/ ScrollEvent
    \/ ResizeEvent
    \/ TouchEndEvent
    \/ ObserverNotify
    \/ FireFirst
    \/ FireScroll
    \/ FireTouch
    \/ FireLoadInit
    \/ FireLoadCheck
    \/ Tick
    \/ InsertContainer
    \/ AppendSection
    \/ Relayout

Spec == Init /\ [][Next]_vars

\* the selection under every geometry: a complete page with arbitrary
\* bounding rectangles, set up and then recomputed through the diagnostic object
InitSel ==
    /\ InitCommon
    /\ domContainer = TRUE
    /\ domSections \in {Prefix(n) : n \in 1..MaxSections}
    /\ containerRect \in Rect
    /\ sectionRect \in [Elems -> Rect]

\* init, the recompute, the observer and the timers on a page that keeps
\* growing after the setup
NextDom ==
    \/ Bootstrap
    \/ DOMContentLoaded
    \/ Load
    \/ DiagInit
    \/ DiagCheck
    \/ ObserverNotify
    \/ FireFirst
    \/ FireLoadInit
    \/ FireLoadCheck
    \/ Tick
    \/ InsertContainer
    \/ AppendSection
    \/ LateSection

SpecDom == Init /\ [][NextDom]_vars

\* the observer callback under every batch: a complete page on a platform
\* with IntersectionObserver, notified about any set of targets at any ratio
InitObs ==
    /\ InitCommon
    /\ hasIO = TRUE
    /\ domContainer = TRUE
    /\ domSections \in {Prefix(n) : n \in 1..MaxSections}
    /\ containerRect = PageRect
    /\ sectionRect = [e \in Elems |-> IF e = 1 THEN PageRect ELSE AwayRect]

\* the ends of the three bands the callback tells apart
BandRatios == {0, HideRatio, ShowRatio - 1, ShowRatio}

ObserverNotifyAny == Notify(Batches(Range(observed), BandRatios))

NextObs ==
    \/ Bootstrap
    \/ DOMContentLoaded
    \/ ObserverNotifyAny
    \/ FireFirst
    \/ Tick

SpecObs == InitObs /\ [][NextObs]_vars

\* the tracker on a page whose markup may carry the class already, up to
\* and including its setup
InitPre ==
    /\ InitTracker
    /\ domContainer \in BOOLEAN
    /\ domSections \in {Prefix(n) : n \in 0..MaxSections}
    /\ visible \in SUBSET Range(domSections)
    /\ containerRect = PageRect
    /\ sectionRect \in SnapLayouts

NextPre ==
    \/ Bootstrap
    \/ DOMContentLoaded
    \/ Load
    \/ DiagInit
    \/ DiagCheck
    \/ FireFirst
    \/ FireLoadInit
    \/ FireLoadCheck
    \/ Tick
    \/ InsertContainer
    \/ AppendSection

SpecPre == InitPre /\ [][NextPre]_vars

NextSel ==
    \/ Bootstrap
    \/ DOMContentLoaded
    \/ DiagCheck

SpecSel == InitSel /\ [][NextSel]_vars

\* ------------------------------------------------------------- properties
\* the cached sections that carry 'is-visible'
Marked == {e \in Range(sections) : e \in visible}

\* the last step ran checkVisibleSection
RecomputeRan == calls # <<>> /\ calls[Len(calls)] = "checkVisibleSection"

\* the last step ran init
InitRan == calls # <<>> /\ calls[1] = "init"

\* C1 (as stated): after any recompute with a non-empty section list, exactly
\* one section carries the marker.
C1_Original ==
    (RecomputeRan /\ sections # <<>>) => Cardinality(Marked) = 1

\* C1 (amended): after any recompute run while the container is cached and
\* the section list is non-empty, exactly one section carries the marker and
\* no other element does.
C1_ExactlyOneAfterRecompute ==
    (RecomputeRan /\ container /\ sections # <<>>)
        => (Cardinality(Marked) = 1 /\ visible = Marked)

C1_Witness ==
    /\ RecomputeRan
    /\ container
    /\ Len(sections) = MaxSections
    /\ visible = {sections[MaxSections]}
    /\ restarted = {}

\* C2 (as stated): at most one section carries the marker in every reachable
\* state.
C2_Original == Cardinality(Marked) <= 1

\* C2 (amended): a step that leaves more than one section marked, and changed
\* which sections are marked, is an observer notification or the
\* first-section timer; init and recomputes never produce such a state.
C2_OnlyObserverOrFirstTimerExceedOne ==
    [][(Cardinality(Marked') > 1 /\ Marked' # Marked)
         => calls' \in {<<"observerCallback">>, <<"firstSectionCallback">>}]_vars

C2_Witness ==
    /\ Cardinality(Marked) > 1
    /\ calls = <<"firstSectionCallback">>

\* C3: once isInitialized is true, a call of init adds no listener, observes
\* nothing, schedules no timer, and leaves the cached container and sections
\* and every marker as they were.
C3_InitIdempotent ==
    [][(isInitialized /\ InitRan')
         => /\ UNCHANGED <<scrollListeners, touchListeners, resizeListeners, observed>>
            /\ UNCHANGED <<isInitialized, container, sections, visible>>
            /\ timers' \sqsubseteq timers]_vars

C3_Witness ==
    /\ isInitialized
    /\ calls = <<"init">>
    /\ scrollListeners = 1

\* C4: the section a recompute marks is at a distance from the container
\* center no greater than that of any other section.
C4_SelectedIsClosest ==
    (RecomputeRan /\ container /\ sections # <<>>)
        => \A m \in Marked : \A e \in Range(sections) :
              LET vc == 2 * containerRect.left + containerRect.width
                  dm == 2 * sectionRect[m].left + sectionRect[m].width - vc
                  de == 2 * sectionRect[e].left + sectionRect[e].width - vc
              IN  dm * dm <= de * de

C4_Witness ==
    /\ RecomputeRan
    /\ container
    /\ Len(sections) = MaxSections
    /\ Marked = {sections[MaxSections]}
    /\ Center2(sectionRect[sections[1]]) < Center2(containerRect)
    /\ Center2(sectionRect[sections[MaxSections]]) > Center2(containerRect)

\* C5: among the sections at the minimal distance the recompute marks the one
\* of lowest index: every section before the marked one is strictly farther.
C5_FirstOfTheClosest ==
    (RecomputeRan /\ container /\ sections # <<>>)
        => \A k \in 1..Len(sections) :
              sections[k] \in Marked
                 => \A j \in 1..(k - 1) :
                       Abs(Center2(sectionRect[sections[j]]) - Center2(containerRect))
                         > Abs(Center2(sectionRect[sections[k]]) - Center2(containerRect))

C5_Witness ==
    /\ RecomputeRan
    /\ container
    /\ Len(sections) > 1
    /\ Marked = {sections[1]}
    /\ Center2(sectionRect[sections[1]]) < Center2(containerRect)
    /\ Center2(sectionRect[sections[1]]) + Center2(sectionRect[sections[2]])
         = 2 * Center2(containerRect)

\* C6: a recompute that selects a section removes the marker from it, reads
\* its layout and adds the marker back, in this order, also when the section
\* carried the marker already.
C6_RemoveReflowAdd ==
    (RecomputeRan /\ container /\ sections # <<>>)
        => \E e \in Range(sections) :
              /\ mutations[e] = <<"remove", "reflow", "add">>
              /\ e \in visible
              /\ \A o \in Range(sections) \ {e} : mutations[o] = <<"remove">>

C6_Witness ==
    /\ calls = <<"checkVisibleSection">>
    /\ container
    /\ restarted # {}
    /\ \E e \in restarted : mutations[e] = <<"remove", "reflow", "add">>

\* C7: at most one scroll debounce timer is pending; while a burst of scroll
\* events waits, its timer is due ScrollDebounce ms after the last event; the
\* timer goes away only by running, ScrollDebounce ms after that event, as
\* one recompute that leaves no debounce timer behind.
C7_ScrollDebounce ==
    /\ [](CountKind(timers, "scroll") <= 1)
    /\ [](burst.kinds = {"scroll"}
            => BagIn(Timer("scroll", ScrollDebounce - sinceFeed), timers))
    /\ [][(burst.kinds = {"scroll"}
             /\ CountKind(timers', "scroll") < CountKind(timers, "scroll"))
            => /\ sinceFeed = ScrollDebounce
               /\ calls' = <<"checkVisibleSection">>
               /\ served' = burst
               /\ CountKind(timers', "scroll") = 0]_vars
    /\ [](served # NoBurst => calls = <<"checkVisibleSection">>)

C7_Witness ==
    /\ served.kinds = {"scroll"}
    /\ served.many
    /\ calls = <<"checkVisibleSection">>
    /\ CountKind(timers, "scroll") = 0
    /\ hasIO

\* C8: an init that finds no container or no section attaches no listener,
\* observes nothing, schedules no timer, changes no marker and leaves
\* isInitialized false.
C8_FailedInitDoesNothing ==
    [][(~isInitialized /\ InitRan' /\ (~domContainer \/ domSections = <<>>))
         => /\ UNCHANGED <<scrollListeners, touchListeners, resizeListeners, observed>>
            /\ timers' \sqsubseteq timers
            /\ visible' = visible
            /\ isInitialized' = FALSE]_vars

C8_Witness ==
    /\ calls = <<"init", "warn">>
    /\ ~container
    /\ sections # <<>>
    /\ ~isInitialized

\* exactly one complete setup of the mode the platform supports
SetupOnce ==
    /\ container
    /\ sections # <<>>
    /\ scrollListeners = 1
    /\ IF hasIO
       THEN touchListeners = 1 /\ resizeListeners = 0 /\ observed = sections
       ELSE touchListeners = 0 /\ resizeListeners = 1 /\ observed = <<>>

NoSetup ==
    /\ scrollListeners = 0
    /\ touchListeners = 0
    /\ resizeListeners = 0
    /\ observed = <<>>

\* C9: an init call made while isInitialized is false and the document holds
\* the container and a section sets isInitialized and completes one setup,
\* however many attempts failed before; isInitialized is true only with
\* exactly one setup in place, and without it nothing is set up.
C9_FirstGoodInitSetsUpOnce ==
    /\ [][(~isInitialized /\ InitRan' /\ domContainer /\ domSections # <<>>)
            => (isInitialized' /\ SetupOnce')]_vars
    /\ [](IF isInitialized THEN SetupOnce ELSE NoSetup)

\* a setup made after the load event: the attempt of the script body or of
\* DOMContentLoaded, which precedes that event, had failed
C9_Witness ==
    /\ isInitialized
    /\ InitRan
    /\ Len(calls) > 1
    /\ CountKind(timers, "loadCheck") = 1
    /\ BagIn(Timer("first", FirstDelay), timers)

\* C10: a successful init schedules one timer of FirstDelay ms and no other
\* first-section timer exists; after it ran, the first cached section carries
\* the marker.
C10_FirstSectionTimer ==
    /\ [][(~isInitialized /\ isInitialized')
            => /\ CopiesIn(Timer("first", FirstDelay), timers') = 1
               /\ CountKind(timers', "first") = 1
               /\ CountKind(timers, "first") = 0]_vars
    /\ [](CountKind(timers, "first") <= 1)
    /\ [](calls = <<"firstSectionCallback">>
            => (sections # <<>> /\ sections[1] \in visible))

C10_Witness ==
    /\ calls = <<"firstSectionCallback">>
    /\ Len(sections) > 1
    /\ sectionRect[sections[1]] = AwayRect
    /\ sections[1] \in visible
    /\ sections[2] \in visible

\* observer mode is set up: sections are observed, touchend is listened to
ObserverMode == observed # <<>> /\ touchListeners > 0

\* fallback mode is set up: handleScroll listens to resize
FallbackMode == resizeListeners > 0

\* C11: after a successful init exactly one detection mode is set up, the
\* observer mode if and only if IntersectionObserver exists, the fallback
\* mode otherwise; no later step changes what is set up.
C11_ExactlyOneMode ==
    /\ [](isInitialized
            => /\ ObserverMode <=> hasIO
               /\ FallbackMode <=> ~hasIO
               /\ scrollListeners = 1)
    /\ [][isInitialized
            => UNCHANGED <<scrollListeners, touchListeners, resizeListeners,
                           observed>>]_vars

C11_Witness ==
    /\ isInitialized
    /\ ~hasIO
    /\ FallbackMode
    /\ ~ObserverMode
    /\ calls = <<"init">>

\* the step runs the callback of the timer set 200 ms after load
LoadCheckFires == CountKind(timers', "loadCheck") < CountKind(timers, "loadCheck")

\* the step runs the callback of the timer set 100 ms after load
LoadInitFires == CountKind(timers', "loadInit") < CountKind(timers, "loadInit")

\* C12 (as stated): the recompute scheduled after load runs its selection and
\* marker update on the cached sections, whatever the flag.
C12_Original ==
    [][(LoadCheckFires /\ sections # <<>>)
         => \E e \in Range(sections) : mutations'[e] = OpsRetrigger]_vars

\* C12 (amended): the recompute scheduled after load is called whatever the
\* flag and is gated by the cached container alone: with a container and
\* sections it marks one section, otherwise it changes nothing; while the
\* flag is false it changes no marker.  The init scheduled after load returns
\* at once when the flag is true.
C12_LoadRecomputeGatedByContainer ==
    /\ [][LoadCheckFires
            => /\ calls' = <<"checkVisibleSection">>
               /\ IF container /\ sections # <<>>
                  THEN \E e \in Range(sections) :
                          /\ mutations'[e] = OpsRetrigger
                          /\ Marked' = {e}
                  ELSE visible' = visible /\ mutations' = NoOps]_vars
    /\ [][(LoadCheckFires /\ ~isInitialized) => visible' = visible]_vars
    /\ [][(LoadInitFires /\ isInitialized)
            => /\ calls' = <<"init">>
               /\ UNCHANGED <<visible, container, sections, observed,
                              scrollListeners, touchListeners,
                              resizeListeners>>]_vars

\* the init retry after load has failed on a page without container, and the
\* load recompute is the step to come, with sections cached and the flag false
C12_Witness ==
    /\ Due("loadCheck")
    /\ CountKind(timers, "loadInit") = 0
    /\ calls = <<"init", "warn">>
    /\ ~isInitialized
    /\ ~container
    /\ sections # <<>>

\* C13: once isInitialized is true no step makes it false or assigns the
\* cached container or the cached sections, whatever the page becomes.
C13_InitializedIsFinal ==
    [][isInitialized
         => (isInitialized' /\ UNCHANGED <<container, sections>>)]_vars

\* init was called after the page had gained a section the cache does not hold
C13_Witness ==
    /\ isInitialized
    /\ calls = <<"init">>
    /\ domSections # sections
    /\ container

\* C14: for each entry of a notification, a ratio of at least ShowRatio
\* removes and re-adds the class and leaves the target marked, a ratio below
\* HideRatio leaves it unmarked, a ratio in between leaves its class as it
\* was; elements without an entry are not touched.
C14_ObserverEntryRule ==
    [][calls' = <<"observerCallback">>
         => /\ \A e \in DOMAIN delivered' :
                 LET ratio == delivered'[e].intersectionRatio
                 IN  /\ ratio >= ShowRatio
                          => (mutations'[e] = <<"remove", "reflow", "add">>
                              /\ e \in visible')
                     /\ ratio < HideRatio => e \notin visible'
                     /\ (ratio >= HideRatio /\ ratio < ShowRatio)
                          => (mutations'[e] = <<>>
                              /\ (e \in visible' <=> e \in visible))
            /\ \A e \in Elems \ DOMAIN delivered' :
                 /\ mutations'[e] = <<>>
                 /\ e \in visible' <=> e \in visible]_vars

\* one batch with an entry in the middle band on a marked section and an
\* entry above the show threshold on another marked section
C14_Witness ==
    /\ calls = <<"observerCallback">>
    /\ Cardinality(DOMAIN delivered) > 1
    /\ \E e \in DOMAIN delivered :
         /\ delivered[e].intersectionRatio = ShowRatio - 1
         /\ e \in visible
         /\ \E o \in DOMAIN delivered \ {e} :
              /\ delivered[o].intersectionRatio >= ShowRatio
              /\ o \in restarted

\* the step is a touch-end event: a timer of TouchDelay ms appears
TouchEndArrives ==
    /\ ~BagIn(Timer("touch", TouchDelay), timers)
    /\ BagIn(Timer("touch", TouchDelay), timers')

\* the step runs the callback of a touch-end timer
TouchFires == CountKind(timers', "touch") < CountKind(timers, "touch")

\* C15 (as stated): touch-end events are debounced like scroll events, so
\* that at most one touch-end timer is pending and a burst ends in one
\* recompute.
C15_Original == CountKind(timers, "touch") <= 1

\* C15 (amended): in observer mode every touch-end event adds its own timer
\* of TouchDelay ms and cancels none; a touch-end timer goes away only by
\* running, when due, as one recompute that leaves the other touch-end
\* timers pending; without the observer no touch-end timer exists.
C15_TouchEndNotDebounced ==
    /\ [][TouchEndArrives
            => /\ hasIO
               /\ timers' = timers (+) SetToBag({Timer("touch", TouchDelay)})]_vars
    /\ [][TouchFires
            => /\ Due("touch")
               /\ timers' = timers (-) SetToBag({Timer("touch", 0)})
               /\ calls' = <<"checkVisibleSection">>]_vars
    /\ [](~hasIO => CountKind(timers, "touch") = 0)

\* two touch-ends less than TouchDelay apart: the timer of the first is
\* due, the timer of the second is still pending
C15_Witness ==
    /\ Due("touch")
    /\ BagIn(Timer("touch", TouchDelay - TickMs), timers)
    /\ CountKind(timers, "touch") = 2

\* C16: in fallback mode scroll and resize events feed one debounce timer:
\* at most one is pending, every event of either kind leaves it due
\* ScrollDebounce ms later, and it goes away only by running, ScrollDebounce
\* ms after the last event, as one recompute for the whole burst; the setup
\* of fallback mode itself runs one recompute inside init.
C16_FallbackSharedDebounce ==
    /\ [](~hasIO => CountKind(timers, "scroll") <= 1)
    /\ []((~hasIO /\ burst # NoBurst)
            => BagIn(Timer("scroll", ScrollDebounce - sinceFeed), timers))
    /\ [][(~hasIO /\ CountKind(timers', "scroll") < CountKind(timers, "scroll"))
            => /\ burst # NoBurst
               /\ sinceFeed = ScrollDebounce
               /\ calls' = <<"checkVisibleSection">>
               /\ served' = burst
               /\ CountKind(timers', "scroll") = 0]_vars
    /\ [][(~hasIO /\ ~isInitialized /\ isInitialized')
            => /\ calls' = <<"init", "setupScrollFallback", "checkVisibleSection">>
               /\ \E e \in Range(sections') :
                    mutations'[e] = <<"remove", "reflow", "add">>]_vars

\* the one recompute that ends a burst of scroll and resize events
C16_Witness ==
    /\ ~hasIO
    /\ served.kinds = {"scroll", "resize"}
    /\ served.many
    /\ calls = <<"checkVisibleSection">>
    /\ CountKind(timers, "scroll") = 0

\* the last step was a recompute, an observer notification or the
\* first-section timer, outside init
MarkerStep ==
    calls \in {<<"checkVisibleSection">>, <<"observerCallback">>,
               <<"firstSectionCallback">>}

\* C17: a recompute, an observer notification and the first-section timer
\* write the class of cached sections and nothing else: the flag, the cached
\* container and sections, the listeners, the observed targets, the document
\* and its geometry stay as they were, and so do the pending timers, but for
\* the one whose callback the step runs; the class is only ever on cached
\* sections.
C17_OnlyMarkersWritten ==
    /\ [][MarkerStep'
            => /\ UNCHANGED <<isInitialized, container, sections>>
               /\ UNCHANGED <<scrollListeners, touchListeners, resizeListeners,
                              observed>>
               /\ UNCHANGED <<domContainer, domSections, containerRect,
                              sectionRect>>
               /\ \/ timers' = timers
                  \/ \E t \in BagToSet(timers) :
                       /\ t.due = 0
                       /\ timers' = timers (-) SetToBag({t})
               /\ \A e \in Elems \ Range(sections) : mutations'[e] = <<>>]_vars
    /\ [](visible \subseteq Range(sections))

\* the first-section timer ran while a debounce timer was pending
C17_Witness ==
    /\ calls = <<"firstSectionCallback">>
    /\ isInitialized
    /\ CountKind(timers, "scroll") = 1
    /\ sections[1] \in visible

\* C18: a recompute called while no container is cached changes no class and
\* performs no class operation, also when sections are cached and one of
\* them carries the class.
C18_NoContainerNoOp ==
    [][(calls' = <<"checkVisibleSection">> /\ ~container)
         => (visible' = visible /\ mutations' = NoOps)]_vars

\* after an init that found sections and no container, a recompute has left
\* the class on a cached section
C18_Witness ==
    /\ calls = <<"checkVisibleSection">>
    /\ ~container
    /\ sections # <<>>
    /\ \E e \in Range(sections) : e \in visible

\* C19: whenever getState reports isInitialized, a container is cached and
\* the cached section list is non-empty; an init that fails still overwrites
\* the cached container and sections with what the document holds.
C19_InitializedImpliesCache ==
    /\ [](GetState.isInitialized
            => (container /\ sections # <<>> /\ GetState.sectionsCount > 0))
    /\ [][(InitRan' /\ ~isInitialized')
            => (container' = domContainer /\ sections' = domSections)]_vars

\* a setup over the largest page, read through getState
C19_Witness ==
    /\ GetState.isInitialized
    /\ GetState.sectionsCount = MaxSections
    /\ container
    /\ InitRan
    /\ Len(calls) > 1
    /\ CountKind(timers, "loadInit") = 1

====
